---- MODULE Spec2Model ----
(***************************************************************************)
(* The bounded tool-calling loop of main_recursion_fixed.py: the graphs    *)
(* built by create_recursion_safe_graph and                                *)
(* create_advanced_recursion_safe_graph, run by graph.invoke with          *)
(* config = {"recursion_limit": MAX_RECURSION_LIMIT}.                      *)
(*                                                                         *)
(* One action per node execution.  A chat action is the whole node: the    *)
(* model call (or its failure), the state update through the channel       *)
(* reducers, and the conditional edge (should_continue) that picks the     *)
(* next node.                                                              *)
(***************************************************************************)
EXTENDS Integers, Sequences, FiniteSets, TLC

VARIABLES
    variant,        \* which compiled graph runs: "simple" (graph) or "advanced" (advanced_graph)
    state,          \* the graph state: a dict, key -> value (ChatState / AdvancedChatState)
    pc,             \* the node scheduled next, or END, or "GraphRecursionError"
    step,           \* node executions (supersteps) performed by this invoke
    tool_fails,     \* environment: every invocation of a registered tool fails
    trace,          \* history: names of the nodes executed so far, in order
    invocations,    \* history: individual tool invocations performed so far
    init_state,     \* history: the state the run was invoked with
    decided_at,     \* history: tool_call_count read by the latest policy decision
    welcomed,       \* history: per chat execution, was the synthesized message prepended
    report,         \* what the test harnesses report about the finished invoke
    module,         \* which variant module is imported: its file name without .py
    env,            \* environment: variables and whether TavilySearch construction raises
    rpc,            \* how far the import / graph construction of the module has come
    all_tools,      \* the module's global registry (GUARANTEED_TOOLS / all_tools), tool names
    node_tools,     \* the tools held by the graph's ToolNode
    bound_tools,    \* the tools bound to the model by the latest create_llm(bind_tools=True)
    bindings,       \* create_llm / initialize_platform_tools calls after the graph was built
    convs,          \* two invokes in progress at once: conversation -> its variant, state, pc, step
    turn,           \* multi-turn use: which invoke of the conversation this is, from 1
    call,           \* the latest invocation of a registered tool through the tool interface
    wrapper         \* a Salesforce wrapper object: its fields and the calls made on it

regvars == <<module, env, rpc, all_tools, node_tools, bound_tools, bindings>>

runvars == <<variant, state, pc, step, tool_fails, trace, invocations, init_state, decided_at,
             welcomed, report>>

sessionvars == <<convs, turn>>

toolvars == <<call, wrapper>>

vars == <<variant, state, pc, step, tool_fails, trace, invocations, init_state, decided_at,
          welcomed, report, regvars, sessionvars, toolvars>>

----------------------------------------------------------------------------
(* Program constants *)

MAX_TOOL_CALLS_PER_CONVERSATION == 5
MAX_RECURSION_LIMIT == 15
END == "__end__"

(* Bounds of the model *)

ExternalCeiling == 9    \* node executions the runtime allows an invoke without recursion_limit

MaxTurns == 3           \* most invokes of one conversation in multi-turn use

MaxCalls == 4           \* most calls made on one wrapper object

MaxBindings == 2        \* most create_llm(bind_tools=True) calls after the graph was built

MaxFanout == 2          \* most tool invocation requests in one model response
MaxInitCount == 6       \* largest tool_call_count a run is invoked with

----------------------------------------------------------------------------
(* Dict helpers: state.get(key, default) and sequence folds *)

Get(d, k, default) == IF k \in DOMAIN d THEN d[k] ELSE default

Last(s) == s[Len(s)]

----------------------------------------------------------------------------
(* Messages.  id = 0 stands for "no id yet" (assigned by add_messages).    *)

HumanMessage(c) ==
    [type |-> "human", content |-> c, tool_calls |-> <<>>, id |-> 0,
     name |-> "", tool_call_id |-> <<>>]

AIMessage(c, calls) ==
    [type |-> "ai", content |-> c, tool_calls |-> calls, id |-> 0,
     name |-> "", tool_call_id |-> <<>>]

ToolMessage(c, n, call_id) ==
    [type |-> "tool", content |-> c, tool_calls |-> <<>>, id |-> 0,
     name |-> n, tool_call_id |-> call_id]

(* Variant of the reducer: plain list concatenation (operator.add).         *)
add_messages_plain_append(left, right) == left \o right

(* add_messages, the reducer of ChatState.messages: a message whose id is  *)
(* already in the list replaces that entry in place, any other message is  *)
(* appended, after receiving a fresh id when it has none.                  *)
add_messages(left, right) ==
    LET ids == {left[i].id : i \in 1..Len(left)}
        \* the entry of right that finally stands for right[j]: the last one with its id
        final(j) == IF right[j].id = 0 THEN j
                    ELSE CHOOSE x \in j..Len(right) :
                            /\ right[x].id = right[j].id
                            /\ \A y \in (x + 1)..Len(right) : right[y].id # right[j].id
        \* entries of right that open a new position
        fresh == {j \in 1..Len(right) :
                    \/ right[j].id = 0
                    \/ /\ right[j].id \notin ids
                       /\ \A y \in 1..(j - 1) : right[y].id # right[j].id}
        nth(n) == CHOOSE j \in fresh : Cardinality({x \in fresh : x <= j}) = n
        replaced == [i \in 1..Len(left) |->
                        LET hit == {j \in 1..Len(right) : right[j].id # 0 /\ right[j].id = left[i].id}
                        IN  IF hit = {} THEN left[i]
                            ELSE right[CHOOSE j \in hit : \A y \in hit : y <= j]]
        appended == [n \in 1..Cardinality(fresh) |->
                        LET m == right[final(nth(n))]
                        IN  IF m.id = 0 THEN [m EXCEPT !.id = Len(left) + n] ELSE m]
    IN  replaced \o appended

(* The channel write of one node's return value: messages go through       *)
(* add_messages, every other key is overwritten (last value).              *)
ApplyWrites(st, upd) ==
    [k \in DOMAIN st \cup DOMAIN upd |->
        IF k \in DOMAIN upd
        THEN IF k = "messages"
             THEN add_messages(Get(st, "messages", <<>>), upd[k])
             ELSE upd[k]
        ELSE st[k]]

----------------------------------------------------------------------------
(* Tool registry *)

(* What the registry is built from: an environment variable is unset, set  *)
(* to the empty string or set to a value; constructing TavilySearch may    *)
(* raise.                                                                  *)
EnvValues == {"unset", "", "value"}

Environments ==
    [TAVILY_API_KEY : EnvValues, tavily_raises : BOOLEAN,
     SALESFORCE_USERNAME : EnvValues, SALESFORCE_PASSWORD : EnvValues]

(* The environment of the runs modelled by Spec: no search key, Salesforce *)
(* credentials present.                                                    *)
RunEnv ==
    [TAVILY_API_KEY |-> "unset", tavily_raises |-> FALSE,
     SALESFORCE_USERNAME |-> "value", SALESFORCE_PASSWORD |-> "value"]

(* Python truthiness of os.getenv(...): None and "" are false. *)
Truthy(v) == v \notin {"unset", ""}

(* The outcome of a call: a returned value or a raised exception. *)
Return(v) == [raised |-> FALSE, value |-> v]

Raise == [raised |-> TRUE, value |-> <<>>]

TavilySearch(e) == IF e.tavily_raises THEN Raise ELSE Return(<<"tavily_search">>)

(* Variant of create_guaranteed_search_tool: TavilySearch is constructed   *)
(* outside any try block.                                                  *)
create_guaranteed_search_tool_unguarded(e) ==
    IF Truthy(e.TAVILY_API_KEY) THEN TavilySearch(e) ELSE Return(<<"search">>)

(* create_guaranteed_search_tool, the same in main_recursion_fixed.py and  *)
(* main_platform_fixed.py: a failed TavilySearch construction falls        *)
(* through to the fallback Tool named "search".                            *)
create_guaranteed_search_tool(e) ==
    IF Truthy(e.TAVILY_API_KEY) /\ ~TavilySearch(e).raised
    THEN TavilySearch(e)
    ELSE Return(<<"search">>)

(* Variant of validate_platform_config: one credential is enough.          *)
validate_platform_config_either(e) ==
    IF ~Truthy(e.SALESFORCE_USERNAME) /\ ~Truthy(e.SALESFORCE_PASSWORD) THEN FALSE ELSE TRUE

validate_platform_config(e) ==
    IF ~Truthy(e.SALESFORCE_USERNAME) \/ ~Truthy(e.SALESFORCE_PASSWORD) THEN FALSE ELSE TRUE

create_guaranteed_salesforce_tools(e) ==
    IF ~validate_platform_config(e) THEN <<>>
    ELSE <<"salesforce_status", "salesforce_query", "salesforce_describe">>

create_guaranteed_tools(e) ==
    LET search_tool == create_guaranteed_search_tool(e)
    IN  IF search_tool.raised THEN Raise
        ELSE Return(search_tool.value \o create_guaranteed_salesforce_tools(e) \o <<"help">>)

GUARANTEED_TOOLS == create_guaranteed_tools(RunEnv).value

(* main_platform_ready.py: get_search_tool constructs TavilySearch outside  *)
(* any try block; without a key it returns a stub Tool of the same name.   *)
get_search_tool(e) ==
    IF ~Truthy(e.TAVILY_API_KEY) THEN Return(<<"tavily_search">>) ELSE TavilySearch(e)

(* What one call of create_platform_ready_salesforce_tools comes to: the   *)
(* tools of the MCP server, the two fallback tools when the MCP server     *)
(* yields none, nothing when initialize() returns False, or an exception.  *)
SalesforceOutcomes == {"mcp", "fallback", "failed", "raises"}

McpTools == <<"salesforce_search_objects", "salesforce_query_records">>

create_platform_ready_salesforce_tools(outcome) ==
    CASE outcome = "mcp" -> Return(McpTools)
      [] outcome = "fallback" -> Return(<<"salesforce_query", "salesforce_describe">>)
      [] outcome = "failed" -> Return(<<>>)
      [] outcome = "raises" -> Raise

(* initialize_platform_tools: the new value of the global all_tools, which *)
(* is also what it returns.                                                *)
initialize_platform_tools(e, search_tool, outcome) ==
    LET created == create_platform_ready_salesforce_tools(outcome)
        salesforce_tools == IF validate_platform_config(e)
                            THEN IF created.raised THEN <<>> ELSE created.value
                            ELSE <<>>
    IN  search_tool \o salesforce_tools

(* get_tools_sync: what it returns and what it leaves in the global        *)
(* all_tools.  run_raises: asyncio.run raises (as it does inside a running *)
(* event loop).                                                            *)
get_tools_sync(registry, e, search_tool, run_raises, outcome) ==
    IF registry = <<>>
    THEN IF run_raises
         THEN [returned |-> search_tool, all_tools |-> registry]
         ELSE LET tools == initialize_platform_tools(e, search_tool, outcome)
              IN  [returned |-> tools, all_tools |-> tools]
    ELSE [returned |-> registry, all_tools |-> registry]

IsSearchTool(n) == n \in {"search", "tavily_search"}

FixedModules == {"main_recursion_fixed", "main_platform_fixed"}

Modules == FixedModules \cup {"main_platform_ready"}

ToolNames == {GUARANTEED_TOOLS[i] : i \in 1..Len(GUARANTEED_TOOLS)}

(* The tool names the model asks for: the i-th request of a response names *)
(* a registered tool when i is odd and an unknown one when i is even.      *)
RequestedTool(i) == IF i % 2 = 1 THEN "salesforce_query" ELSE "nonexistent_tool"

RequestLists == {[i \in 1..n |-> RequestedTool(i)] : n \in 1..MaxFanout}

----------------------------------------------------------------------------
(* The model service: what llm.invoke may return (or it raises).           *)

Contents == {"", "plain", "complete", "assistant with"}

ModelResponses ==
    {[content |-> c, tool_calls |-> <<>>] : c \in Contents}
    \cup {[content |-> "", tool_calls |-> calls] : calls \in RequestLists}

(* The AIMessage built from a model response appended at position k: each  *)
(* tool invocation request gets its own call id.                           *)
ResponseMessage(r, k) ==
    AIMessage(r.content,
              [i \in 1..Len(r.tool_calls) |-> [name |-> r.tool_calls[i], id |-> <<k, i>>]])

----------------------------------------------------------------------------
(* Continuation policy *)

hasattr_tool_calls(m) == m.type = "ai"

completion_indicators == {"complete"}

ContainsIndicator(c) == c \in completion_indicators

(* Variant of should_continue: the limit test uses > in place of >=.       *)
should_continue_off_by_one(st) ==
    LET messages == st["messages"]
        tool_call_count == Get(st, "tool_call_count", 0)
    IN  IF tool_call_count > MAX_TOOL_CALLS_PER_CONVERSATION
        THEN END
        ELSE LET last_message == Last(messages)
             IN  IF hasattr_tool_calls(last_message) /\ last_message.tool_calls # <<>>
                 THEN "tools"
                 ELSE END

(* Variant of should_continue: tool calls are looked at before the limit.  *)
should_continue_tools_first(st) ==
    LET messages == st["messages"]
        tool_call_count == Get(st, "tool_call_count", 0)
        last_message == Last(messages)
    IN  IF hasattr_tool_calls(last_message) /\ last_message.tool_calls # <<>>
        THEN "tools"
        ELSE IF tool_call_count >= MAX_TOOL_CALLS_PER_CONVERSATION
             THEN END
             ELSE END

(* Variant of should_continue: no limit test at all (as in main.py).       *)
should_continue_no_ceiling(st) ==
    LET messages == st["messages"]
        last_message == Last(messages)
    IN  IF hasattr_tool_calls(last_message) /\ last_message.tool_calls # <<>>
        THEN "tools"
        ELSE END

(* Variant of should_continue: the completion phrases are looked at before *)
(* the tool calls.                                                         *)
should_continue_phrase_first(st) ==
    LET messages == st["messages"]
        tool_call_count == Get(st, "tool_call_count", 0)
    IN  IF tool_call_count >= MAX_TOOL_CALLS_PER_CONVERSATION
        THEN END
        ELSE LET last_message == Last(messages)
             IN  IF last_message.content # "" /\ ContainsIndicator(last_message.content)
                 THEN END
                 ELSE IF hasattr_tool_calls(last_message) /\ last_message.tool_calls # <<>>
                      THEN "tools"
                      ELSE END

(* Variant of should_continue: a last message without tool calls ends the  *)
(* run only when it carries a completion phrase.                           *)
should_continue_needs_completion(st) ==
    LET messages == st["messages"]
        tool_call_count == Get(st, "tool_call_count", 0)
    IN  IF tool_call_count >= MAX_TOOL_CALLS_PER_CONVERSATION
        THEN END
        ELSE LET last_message == Last(messages)
             IN  IF hasattr_tool_calls(last_message) /\ last_message.tool_calls # <<>>
                 THEN "tools"
                 ELSE IF last_message.content # "" /\ ContainsIndicator(last_message.content)
                      THEN END
                      ELSE "tools"

should_continue(st) ==
    LET messages == st["messages"]
        tool_call_count == Get(st, "tool_call_count", 0)
    IN  IF tool_call_count >= MAX_TOOL_CALLS_PER_CONVERSATION
        THEN END
        ELSE LET last_message == Last(messages)
             IN  IF hasattr_tool_calls(last_message) /\ last_message.tool_calls # <<>>
                 THEN "tools"
                 ELSE IF last_message.content # "" /\ ContainsIndicator(last_message.content)
                      THEN END
                      ELSE END

(* Variant of should_continue_advanced: the limit test uses > in place of  *)
(* >=.                                                                     *)
should_continue_advanced_off_by_one(st) ==
    LET messages == st["messages"]
        tool_call_count == Get(st, "tool_call_count", 0)
    IN  IF tool_call_count > MAX_TOOL_CALLS_PER_CONVERSATION
        THEN END
        ELSE LET last_message == Last(messages)
             IN  IF hasattr_tool_calls(last_message) /\ last_message.tool_calls # <<>>
                 THEN "tools"
                 ELSE END

should_continue_advanced(st) ==
    LET messages == st["messages"]
        tool_call_count == Get(st, "tool_call_count", 0)
    IN  IF tool_call_count >= MAX_TOOL_CALLS_PER_CONVERSATION
        THEN END
        ELSE LET last_message == Last(messages)
             IN  IF hasattr_tool_calls(last_message) /\ last_message.tool_calls # <<>>
                 THEN "tools"
                 ELSE END

----------------------------------------------------------------------------
(* Nodes: each returns the dict the node function returns.                 *)

(* The synthesized capabilities message of chat_node is prepended to the   *)
(* model input only; it is not part of the returned update.                *)
WelcomePrepended(messages) ==
    \/ Len(messages) <= 1
    \/ ~ \E i \in 1..Len(messages) : messages[i].content = "assistant with"

(* Variant of the greeting test of advanced_chat_node: the second turn of  *)
(* a session is greeted as well.                                           *)
GreetingPrepended_first_two(st) == Get(st, "conversation_count", 0) <= 1

(* advanced_chat_node prepends its synthesized context when                *)
(* conversation_count (absent: 0) is 0.                                    *)
GreetingPrepended(st) == Get(st, "conversation_count", 0) = 0

(* Whether this execution of the chat node hands the model a synthesized   *)
(* first message in front of the stored history.                           *)
ContextPrepended(v, st) ==
    IF v = "simple" THEN WelcomePrepended(st["messages"]) ELSE GreetingPrepended(st)

(* system_context of advanced_chat_node: "Hello! I'm your advanced AI      *)
(* assistant with ... tools available. ..."                                *)
system_context == AIMessage("assistant with", <<>>)

(* The list advanced_chat_node hands to llm.invoke: the stored history,    *)
(* with system_context in front of it when the greeting test holds.        *)
advanced_model_input(st) ==
    IF GreetingPrepended(st) THEN <<system_context>> \o st["messages"] ELSE st["messages"]

(* system_message of chat_node: "Hello! I'm your AI assistant with ...      *)
(* tools available. ..."                                                   *)
system_message == AIMessage("assistant with", <<>>)

(* The list chat_node hands to llm.invoke. *)
chat_model_input(st) ==
    IF WelcomePrepended(st["messages"])
    THEN <<system_message>> \o st["messages"]
    ELSE st["messages"]

(* Variant of chat_node: the synthesized message is returned along with    *)
(* the response.                                                           *)
chat_node_stores_welcome(st, r, raised) ==
    IF ~raised
    THEN [messages |-> IF WelcomePrepended(st["messages"])
                       THEN <<system_message, ResponseMessage(r, Len(st["messages"]) + 2)>>
                       ELSE <<ResponseMessage(r, Len(st["messages"]) + 1)>>,
          tool_call_count |-> Get(st, "tool_call_count", 0)]
    ELSE [messages |-> <<AIMessage("error", <<>>)>>,
          tool_call_count |-> Get(st, "tool_call_count", 0)]

(* Variant of chat_node: the exception handler hands the error back as a   *)
(* user message.                                                           *)
chat_node_error_as_human(st, r, raised) ==
    IF ~raised
    THEN [messages |-> <<ResponseMessage(r, Len(st["messages"]) + 1)>>,
          tool_call_count |-> Get(st, "tool_call_count", 0)]
    ELSE [messages |-> <<HumanMessage("error")>>,
          tool_call_count |-> Get(st, "tool_call_count", 0)]

(* Variant of chat_node: the exception handler returns a zero counter.     *)
chat_node_resets_count(st, r, raised) ==
    IF ~raised
    THEN [messages |-> <<ResponseMessage(r, Len(st["messages"]) + 1)>>,
          tool_call_count |-> Get(st, "tool_call_count", 0)]
    ELSE [messages |-> <<AIMessage("error", <<>>)>>,
          tool_call_count |-> 0]

(* Variant of chat_node: a successful turn returns a zero counter.         *)
chat_node_fresh_count(st, r, raised) ==
    IF ~raised
    THEN [messages |-> <<ResponseMessage(r, Len(st["messages"]) + 1)>>,
          tool_call_count |-> 0]
    ELSE [messages |-> <<AIMessage("error", <<>>)>>,
          tool_call_count |-> Get(st, "tool_call_count", 0)]

chat_node(st, r, raised) ==
    IF ~raised
    THEN [messages |-> <<ResponseMessage(r, Len(st["messages"]) + 1)>>,
          tool_call_count |-> Get(st, "tool_call_count", 0)]
    ELSE [messages |-> <<AIMessage("error", <<>>)>>,
          tool_call_count |-> Get(st, "tool_call_count", 0)]

(* Variant of advanced_chat_node: the returned update starts the counter   *)
(* over.                                                                   *)
advanced_chat_node_resets_count(st, r, raised) ==
    IF ~raised
    THEN [messages |-> <<ResponseMessage(r, Len(st["messages"]) + 1)>>,
          conversation_count |-> Get(st, "conversation_count", 0) + 1,
          tool_call_count |-> 0]
    ELSE [messages |-> <<AIMessage("error", <<>>)>>,
          conversation_count |-> Get(st, "conversation_count", 0),
          tool_call_count |-> Get(st, "tool_call_count", 0)]

(* Variant of advanced_chat_node: the returned update carries a session_id *)
(* of its own.                                                             *)
advanced_chat_node_new_session(st, r, raised) ==
    IF ~raised
    THEN [messages |-> <<ResponseMessage(r, Len(st["messages"]) + 1)>>,
          conversation_count |-> Get(st, "conversation_count", 0) + 1,
          tool_call_count |-> Get(st, "tool_call_count", 0),
          session_id |-> "new_session"]
    ELSE [messages |-> <<AIMessage("error", <<>>)>>,
          conversation_count |-> Get(st, "conversation_count", 0),
          tool_call_count |-> Get(st, "tool_call_count", 0)]

(* Variant of advanced_chat_node: the exception handler counts the failed   *)
(* turn as well.                                                           *)
advanced_chat_node_counts_failures(st, r, raised) ==
    IF ~raised
    THEN [messages |-> <<ResponseMessage(r, Len(st["messages"]) + 1)>>,
          conversation_count |-> Get(st, "conversation_count", 0) + 1,
          tool_call_count |-> Get(st, "tool_call_count", 0)]
    ELSE [messages |-> <<AIMessage("error", <<>>)>>,
          conversation_count |-> Get(st, "conversation_count", 0) + 1,
          tool_call_count |-> Get(st, "tool_call_count", 0)]

advanced_chat_node(st, r, raised) ==
    IF ~raised
    THEN [messages |-> <<ResponseMessage(r, Len(st["messages"]) + 1)>>,
          conversation_count |-> Get(st, "conversation_count", 0) + 1,
          tool_call_count |-> Get(st, "tool_call_count", 0)]
    ELSE [messages |-> <<AIMessage("error", <<>>)>>,
          conversation_count |-> Get(st, "conversation_count", 0),
          tool_call_count |-> Get(st, "tool_call_count", 0)]

(* Variant of increment_tool_count: counts individual tool invocations.    *)
increment_per_call(st) ==
    [k \in DOMAIN st \cup {"tool_call_count"} |->
        IF k = "tool_call_count"
        THEN Get(st, "tool_call_count", 0) + Len(Last(st["messages"]).tool_calls)
        ELSE st[k]]

increment_tool_count(st) ==
    [k \in DOMAIN st \cup {"tool_call_count"} |->
        IF k = "tool_call_count" THEN Get(st, "tool_call_count", 0) + 1 ELSE st[k]]

(* What one invocation of the named tool yields as result text: an unknown *)
(* name and a failing tool both yield a result message, not an exception.  *)
ToolResult(n, fails) ==
    IF n \notin ToolNames THEN "unknown tool"
    ELSE IF fails THEN "error"
    ELSE "result"

(* Variant of ToolNode: the results come back in completion order, here    *)
(* the reverse of the request order.                                       *)
ToolNode_reversed(st, fails) ==
    LET calls == Last(st["messages"]).tool_calls
        n == Len(calls)
    IN  [messages |->
            [i \in 1..n |->
                ToolMessage(ToolResult(calls[n + 1 - i].name, fails),
                            calls[n + 1 - i].name, calls[n + 1 - i].id)]]

(* ToolNode(GUARANTEED_TOOLS): one ToolMessage per request of the last     *)
(* message, in request order.                                              *)
ToolNode(st, fails) ==
    LET calls == Last(st["messages"]).tool_calls
    IN  [messages |->
            [i \in 1..Len(calls) |->
                ToolMessage(ToolResult(calls[i].name, fails), calls[i].name, calls[i].id)]]

----------------------------------------------------------------------------
(* The compiled graphs *)

ChatNodeName(v) == IF v = "simple" THEN "chat" ELSE "advanced_chat"

(* What the chat node of graph v hands to llm.invoke. *)
ModelInput(v, st) ==
    IF v = "simple" THEN chat_model_input(st) ELSE advanced_model_input(st)

ChatNode(v, st, r, raised) ==
    IF v = "simple" THEN chat_node(st, r, raised) ELSE advanced_chat_node(st, r, raised)

Policy(v, st) ==
    IF v = "simple" THEN should_continue(st) ELSE should_continue_advanced(st)

(* Variant of the conditional edge: "tools" leads straight to the tools    *)
(* node (the wiring of main.py), bypassing increment_counter.              *)
ConditionalEdge_skip_counter(decision) == IF decision = "tools" THEN "tools" ELSE END

(* add_conditional_edges(chat, should_continue, {"tools": "increment_counter", END: END}) *)
ConditionalEdge(decision) == IF decision = "tools" THEN "increment_counter" ELSE END

(* Variant of the invoke configuration: a larger limit than the constant.  *)
recursion_limit_larger == MAX_RECURSION_LIMIT + 10

(* config = {"recursion_limit": MAX_RECURSION_LIMIT} *)
recursion_limit == MAX_RECURSION_LIMIT

(* Variant of the fixed edges: the tools node leads to END.                *)
Edge_tools_to_end(n, v) == IF n = "increment_counter" THEN "tools" ELSE END

(* Variant of the fixed edges: increment_counter leads back to chat.       *)
Edge_counter_to_chat(n, v) == ChatNodeName(v)

(* add_edge("increment_counter", "tools"); add_edge("tools", "chat") *)
Edge(n, v) == IF n = "increment_counter" THEN "tools" ELSE ChatNodeName(v)

Count(st) == Get(st, "tool_call_count", 0)

Nodes == {"chat", "advanced_chat", "increment_counter", "tools"}

IsChat(n) == n \in {"chat", "advanced_chat"}

Terminated == pc \in {END, "GraphRecursionError"}

----------------------------------------------------------------------------
(* The test harnesses around graph.invoke.  outcome is END when invoke     *)
(* returned the final state st, and the name of the exception it raised    *)
(* otherwise.                                                              *)

IsRecursionError(outcome) == outcome = "GraphRecursionError"

(* Variant of test_scenario: the exception handler reports the scenario as *)
(* passed.                                                                 *)
test_scenario_swallows(outcome, st) ==
    IF outcome = END
    THEN [success |-> TRUE, tool_calls |-> Count(st), n_messages |-> Len(st["messages"])]
    ELSE [success |-> TRUE, tool_calls |-> 0, n_messages |-> 0]

(* test/test_recursion_fix.py: returns (success, tool_calls, len(messages)) *)
test_scenario(outcome, st) ==
    IF outcome = END
    THEN [success |-> TRUE, tool_calls |-> Count(st), n_messages |-> Len(st["messages"])]
    ELSE [success |-> FALSE, tool_calls |-> 0, n_messages |-> 0]

(* test_specific_recursion_scenario.py: returns True or False and prints   *)
(* which kind of failure it saw.                                           *)
test_recursion_scenario(outcome) ==
    IF outcome = END
    THEN [success |-> TRUE, printed |-> "SUCCESS"]
    ELSE IF IsRecursionError(outcome)
         THEN [success |-> FALSE, printed |-> "RECURSION ERROR STILL EXISTS"]
         ELSE [success |-> FALSE, printed |-> "OTHER ERROR"]

(* verify_recursion_fix.py, one scenario of verify_fix: all_passed stays   *)
(* True only for a returned state within the tool-call ceiling.            *)
verify_fix(outcome, st) ==
    IF outcome = END
    THEN [all_passed |-> (Count(st) <= MAX_TOOL_CALLS_PER_CONVERSATION), printed |-> "SUCCESS"]
    ELSE IF IsRecursionError(outcome)
         THEN [all_passed |-> FALSE, printed |-> "RECURSION ERROR"]
         ELSE [all_passed |-> FALSE, printed |-> "OTHER ERROR"]

NoReport ==
    [reported |-> FALSE,
     test_scenario |-> [success |-> FALSE, tool_calls |-> 0, n_messages |-> 0],
     test_recursion_scenario |-> [success |-> FALSE, printed |-> ""],
     verify_fix |-> [all_passed |-> FALSE, printed |-> ""]]

----------------------------------------------------------------------------
(* Initial states: what graph.invoke is called with.                       *)

InitMessages == {<<>>, <<HumanMessage("plain")>>}

InitCounts == 0..MaxInitCount

SimpleInputs ==
    {[messages |-> m] : m \in InitMessages}
    \cup {[messages |-> m, tool_call_count |-> c] : m \in InitMessages, c \in InitCounts}

AdvancedInputs ==
    {[messages |-> m, user_id |-> "test_user", session_id |-> "test_session",
      conversation_count |-> n, tool_call_count |-> c] :
        m \in InitMessages, n \in 0..1, c \in InitCounts}

(* One invoke of one conversation: no second invoke alongside, first turn. *)
NoConvs == <<>>

SessionIdle ==
    /\ convs = NoConvs
    /\ turn = 1

(* No tool has been invoked through the tool interface, and no wrapper     *)
(* object has been constructed.                                            *)
NoCall == [tool |-> "", tool_input |-> "", outcome |-> <<>>]

NoWrapper == <<>>

ToolsIdle ==
    /\ call = NoCall
    /\ wrapper = NoWrapper

(* The run of Spec uses the registry of main_recursion_fixed.py as built   *)
(* at import under RunEnv.                                                 *)
RegistryIdle ==
    /\ module = "main_recursion_fixed"
    /\ env = RunEnv
    /\ rpc = "built"
    /\ all_tools = GUARANTEED_TOOLS
    /\ node_tools = GUARANTEED_TOOLS
    /\ bound_tools = <<>>
    /\ bindings = 0

Init ==
    /\ variant \in {"simple", "advanced"}
    /\ tool_fails \in BOOLEAN
    /\ \E input \in (IF variant = "simple" THEN SimpleInputs ELSE AdvancedInputs) :
            /\ state = ApplyWrites(<<>>, input)
            /\ init_state = state
    /\ pc = ChatNodeName(variant)
    /\ step = 0
    /\ trace = <<>>
    /\ invocations = 0
    /\ decided_at = -1
    /\ welcomed = <<>>
    /\ report = NoReport
    /\ RegistryIdle
    /\ SessionIdle
    /\ ToolsIdle

----------------------------------------------------------------------------
(* Actions: one per node execution *)

ChatStep(r, raised) ==
    /\ pc = ChatNodeName(variant)
    /\ step < recursion_limit
    /\ state' = ApplyWrites(state, ChatNode(variant, state, r, raised))
    /\ pc' = ConditionalEdge(Policy(variant, state'))
    /\ decided_at' = Count(state')
    /\ step' = step + 1
    /\ trace' = Append(trace, pc)
    /\ welcomed' = Append(welcomed, ContextPrepended(variant, state))
    /\ UNCHANGED <<variant, tool_fails, invocations, init_state, report, regvars, sessionvars, toolvars>>

ChatResponds == \E r \in ModelResponses : ChatStep(r, FALSE)

ChatRaises == ChatStep([content |-> "", tool_calls |-> <<>>], TRUE)

IncrementCounter ==
    /\ pc = "increment_counter"
    /\ step < recursion_limit
    /\ state' = ApplyWrites(state, increment_tool_count(state))
    /\ pc' = Edge("increment_counter", variant)
    /\ step' = step + 1
    /\ trace' = Append(trace, pc)
    /\ UNCHANGED <<variant, tool_fails, invocations, init_state, decided_at, welcomed, report, regvars, sessionvars, toolvars>>

Tools ==
    /\ pc = "tools"
    /\ step < recursion_limit
    /\ state' = ApplyWrites(state, ToolNode(state, tool_fails))
    /\ invocations' = invocations + Len(Last(state["messages"]).tool_calls)
    /\ pc' = Edge("tools", variant)
    /\ step' = step + 1
    /\ trace' = Append(trace, pc)
    /\ UNCHANGED <<variant, tool_fails, init_state, decided_at, welcomed, report, regvars, sessionvars, toolvars>>

(* A node is scheduled but the invoke has used up its recursion_limit:     *)
(* invoke raises GraphRecursionError instead of returning a state.         *)
RecursionAbort ==
    /\ pc \in Nodes
    /\ step >= recursion_limit
    /\ pc' = "GraphRecursionError"
    /\ UNCHANGED <<variant, state, step, tool_fails, trace, invocations, init_state, decided_at,
                   welcomed, report, regvars, sessionvars, toolvars>>

(* The invoke has returned or raised: each harness records its verdict.    *)
Report ==
    /\ Terminated
    /\ ~report.reported
    /\ report' = [reported |-> TRUE,
                  test_scenario |-> test_scenario(pc, state),
                  test_recursion_scenario |-> test_recursion_scenario(pc),
                  verify_fix |-> verify_fix(pc, state)]
    /\ UNCHANGED <<variant, state, pc, step, tool_fails, trace, invocations, init_state,
                   decided_at, welcomed, regvars, sessionvars, toolvars>>

(* One node execution or the abort: what graph.invoke itself does.         *)
InvokeStep == ChatResponds \/ ChatRaises \/ IncrementCounter \/ Tools \/ RecursionAbort

Next ==
    \/ ChatResponds
    \/ ChatRaises
    \/ IncrementCounter
    \/ Tools
    \/ RecursionAbort
    \/ Report

Spec == Init /\ [][Next]_vars

(* The run is driven by invoke until no node is scheduled: a scheduled     *)
(* node always executes.                                                   *)
FairSpec == Spec /\ WF_vars(Next)

TypeOK ==
    /\ variant \in {"simple", "advanced"}
    /\ pc \in Nodes \cup {END, "GraphRecursionError"}
    /\ step \in 0..recursion_limit
    /\ Count(state) \in Nat

----------------------------------------------------------------------------
(* The policy on its own: a state as the policy sees it right after a chat *)
(* step (non-empty history ending in an assistant message), and one        *)
(* evaluation of should_continue / should_continue_advanced on it.         *)

PolicyLastMessages ==
    {[ResponseMessage([content |-> c, tool_calls |-> calls], 2) EXCEPT !.id = 2] :
        c \in Contents \cup {"error"}, calls \in RequestLists \cup {<<>>}}

PolicyHistories ==
    {<<[HumanMessage("plain") EXCEPT !.id = 1], m>> : m \in PolicyLastMessages}

PolicyStates ==
    {[messages |-> h] : h \in PolicyHistories}
    \cup {[messages |-> h, tool_call_count |-> c] : h \in PolicyHistories, c \in InitCounts}

PolicyInit ==
    /\ variant \in {"simple", "advanced"}
    /\ state \in PolicyStates
    /\ init_state = state
    /\ pc = "policy"
    /\ step = 0
    /\ tool_fails = FALSE
    /\ trace = <<>>
    /\ invocations = 0
    /\ decided_at = -1
    /\ welcomed = <<>>
    /\ report = NoReport
    /\ RegistryIdle
    /\ SessionIdle
    /\ ToolsIdle

(* Variant of Decide: evaluating the policy also raises the counter.       *)
Decide_counts ==
    /\ pc = "policy"
    /\ variant = "simple"
    /\ pc' = should_continue(state)
    /\ state' = ApplyWrites(state, increment_tool_count(state))
    /\ decided_at' = Count(state)
    /\ UNCHANGED <<variant, step, tool_fails, trace, invocations, init_state,
                   welcomed, report, regvars, sessionvars, toolvars>>

Decide ==
    /\ pc = "policy"
    /\ variant = "simple"
    /\ pc' = should_continue(state)
    /\ decided_at' = Count(state)
    /\ UNCHANGED <<variant, state, step, tool_fails, trace, invocations, init_state,
                   welcomed, report, regvars, sessionvars, toolvars>>

DecideAdvanced ==
    /\ pc = "policy"
    /\ variant = "advanced"
    /\ pc' = should_continue_advanced(state)
    /\ decided_at' = Count(state)
    /\ UNCHANGED <<variant, state, step, tool_fails, trace, invocations, init_state,
                   welcomed, report, regvars, sessionvars, toolvars>>

PolicyNext == Decide \/ DecideAdvanced

PolicySpec == PolicyInit /\ [][PolicyNext]_vars

----------------------------------------------------------------------------
(* Multi-turn use, as demo_salesforce_agent.py does it: the state returned *)
(* by one invoke, with the next user message appended, is the input of the *)
(* next invoke.  The conversations modelled start one dispatch round below *)
(* the ceiling or at it.                                                   *)

ConversationCounts ==
    {MAX_TOOL_CALLS_PER_CONVERSATION - 1, MAX_TOOL_CALLS_PER_CONVERSATION}

ConversationInit ==
    /\ Init
    /\ tool_fails = FALSE
    /\ Len(state["messages"]) = 1
    /\ "tool_call_count" \in DOMAIN state
    /\ state["tool_call_count"] \in ConversationCounts

(* conversation_state["messages"].append(HumanMessage(...)): the message   *)
(* is shown with the id the reducer gives it on input, which no other      *)
(* message of the history has.                                             *)
NextInput(result) ==
    LET messages == result["messages"]
        query == [HumanMessage("plain") EXCEPT !.id = Len(messages) + 1]
    IN  [result EXCEPT !["messages"] = Append(messages, query)]

(* conversation_state = result; ...; graph.invoke(conversation_state)      *)
NextTurn ==
    /\ pc = END
    /\ turn < MaxTurns
    /\ state' = ApplyWrites(<<>>, NextInput(state))
    /\ init_state' = state'
    /\ pc' = ChatNodeName(variant)
    /\ step' = 0
    /\ trace' = <<>>
    /\ invocations' = 0
    /\ decided_at' = -1
    /\ welcomed' = <<>>
    /\ report' = NoReport
    /\ turn' = turn + 1
    /\ UNCHANGED <<variant, tool_fails, regvars, convs, toolvars>>

(* A conversation that starts within one dispatch round of the ceiling     *)
(* runs at most four nodes per invoke, so no invoke uses up its            *)
(* recursion_limit.                                                        *)
ConversationNext ==
    \/ ChatResponds
    \/ ChatRaises
    \/ IncrementCounter
    \/ Tools
    \/ Report
    \/ NextTurn

ConversationSpec == ConversationInit /\ [][ConversationNext]_vars

----------------------------------------------------------------------------
(* The variants without a tool-call counter: main.py,                      *)
(* main_platform_fixed.py and main_platform_ready.py.  Their graphs are    *)
(* chat -> (should_continue) -> tools -> chat, their chat nodes return the *)
(* response (or the error message) and nothing else, and they are invoked  *)
(* without a recursion_limit of their own.                                 *)

CounterlessModules == {"main", "main_platform_fixed", "main_platform_ready"}

(* The tools held by the tools node of each counter-less module under      *)
(* RunEnv.                                                                 *)
CounterlessTools(m) ==
    IF m = "main" THEN get_search_tool(RunEnv).value
    ELSE IF m = "main_platform_fixed" THEN GUARANTEED_TOOLS
    ELSE initialize_platform_tools(RunEnv, get_search_tool(RunEnv).value, "fallback")

(* Variant of the counter-less should_continue: tool calls are followed    *)
(* only while the history holds no tool result yet.                        *)
main_should_continue_one_round(st) ==
    LET messages == st["messages"]
        last_message == Last(messages)
    IN  IF /\ hasattr_tool_calls(last_message) /\ last_message.tool_calls # <<>>
           /\ ~\E i \in 1..Len(messages) : messages[i].type = "tool"
        THEN "tools"
        ELSE END

(* should_continue of main.py, main_platform_fixed.py and                  *)
(* main_platform_ready.py.                                                 *)
main_should_continue(st) ==
    LET messages == st["messages"]
        last_message == Last(messages)
    IN  IF hasattr_tool_calls(last_message) /\ last_message.tool_calls # <<>>
        THEN "tools"
        ELSE END

(* chat_node of the three modules: {"messages": [response]} or             *)
(* {"messages": [error_message]}.                                          *)
main_chat_node(st, r, raised) ==
    IF ~raised
    THEN [messages |-> <<ResponseMessage(r, Len(st["messages"]) + 1)>>]
    ELSE [messages |-> <<AIMessage("error", <<>>)>>]

(* advanced_chat_node of main.py: the response and the advanced turn       *)
(* counter, or the error message and the counter as it was.                *)
main_advanced_chat_node(st, r, raised) ==
    IF ~raised
    THEN [messages |-> <<ResponseMessage(r, Len(st["messages"]) + 1)>>,
          conversation_count |-> Get(st, "conversation_count", 0) + 1]
    ELSE [messages |-> <<AIMessage("error", <<>>)>>,
          conversation_count |-> Get(st, "conversation_count", 0)]

(* ToolNode(tools) of a counter-less module. *)
main_ToolNode(st, tools, fails) ==
    LET calls == Last(st["messages"]).tool_calls
        result(n) == IF \A i \in 1..Len(tools) : tools[i] # n THEN "unknown tool"
                     ELSE IF fails THEN "error"
                     ELSE "result"
    IN  [messages |->
            [i \in 1..Len(calls) |->
                ToolMessage(result(calls[i].name), calls[i].name, calls[i].id)]]

(* add_conditional_edges("chat", should_continue, {"tools": "tools", END: END}) *)
main_ConditionalEdge(decision) == IF decision = "tools" THEN "tools" ELSE END

CounterlessInit ==
    /\ variant = "simple"
    /\ tool_fails \in BOOLEAN
    /\ \E m \in InitMessages :
            /\ state = ApplyWrites(<<>>, [messages |-> m])
            /\ init_state = state
    /\ pc = "chat"
    /\ step = 0
    /\ trace = <<>>
    /\ invocations = 0
    /\ decided_at = -1
    /\ welcomed = <<>>
    /\ report = NoReport
    /\ SessionIdle
    /\ ToolsIdle
    /\ module \in CounterlessModules
    /\ env = RunEnv
    /\ rpc = "built"
    /\ all_tools = CounterlessTools(module)
    /\ node_tools = CounterlessTools(module)
    /\ bound_tools = <<>>
    /\ bindings = 0

CounterlessChatStep(r, raised) ==
    /\ pc = "chat"
    /\ step < ExternalCeiling
    /\ state' = ApplyWrites(state, main_chat_node(state, r, raised))
    /\ pc' = main_ConditionalEdge(main_should_continue(state'))
    /\ step' = step + 1
    /\ trace' = Append(trace, pc)
    /\ UNCHANGED <<variant, tool_fails, invocations, init_state, decided_at, welcomed, report,
                   regvars, sessionvars, toolvars>>

CounterlessChatResponds == \E r \in ModelResponses : CounterlessChatStep(r, FALSE)

CounterlessChatRaises == CounterlessChatStep([content |-> "", tool_calls |-> <<>>], TRUE)

(* add_edge("tools", "chat") *)
CounterlessToolsStep ==
    /\ pc = "tools"
    /\ step < ExternalCeiling
    /\ state' = ApplyWrites(state, main_ToolNode(state, node_tools, tool_fails))
    /\ invocations' = invocations + Len(Last(state["messages"]).tool_calls)
    /\ pc' = "chat"
    /\ step' = step + 1
    /\ trace' = Append(trace, pc)
    /\ UNCHANGED <<variant, tool_fails, init_state, decided_at, welcomed, report,
                   regvars, sessionvars, toolvars>>

(* The runtime's own ceiling on node executions ends the invoke.           *)
CounterlessAbort ==
    /\ pc \in {"chat", "tools"}
    /\ step >= ExternalCeiling
    /\ pc' = "GraphRecursionError"
    /\ UNCHANGED <<variant, state, step, tool_fails, trace, invocations, init_state, decided_at,
                   welcomed, report, regvars, sessionvars, toolvars>>

CounterlessNext ==
    \/ CounterlessChatResponds
    \/ CounterlessChatRaises
    \/ CounterlessToolsStep
    \/ CounterlessAbort

CounterlessSpec == CounterlessInit /\ [][CounterlessNext]_vars

----------------------------------------------------------------------------
(* Two invokes side by side.  Each invoke has channels of its own, so a    *)
(* conversation is a record of its graph variant, its state, the node      *)
(* scheduled next and its node executions so far.                          *)

Conversations == {1, 2}

Conversation(v, input) ==
    [variant |-> v, state |-> ApplyWrites(<<>>, input), pc |-> ChatNodeName(v), step |-> 0]

(* What executing its scheduled node makes of conversation cv: r and       *)
(* raised are the model's answer if the node is a chat node.               *)
NodeStep(cv, r, raised, fails) ==
    IF cv.pc \notin Nodes THEN cv
    ELSE IF cv.step >= recursion_limit THEN [cv EXCEPT !.pc = "GraphRecursionError"]
    ELSE IF IsChat(cv.pc)
         THEN LET st == ApplyWrites(cv.state, ChatNode(cv.variant, cv.state, r, raised))
              IN  [cv EXCEPT !.state = st,
                             !.pc = ConditionalEdge(Policy(cv.variant, st)),
                             !.step = @ + 1]
    ELSE IF cv.pc = "increment_counter"
         THEN [cv EXCEPT !.state = ApplyWrites(cv.state, increment_tool_count(cv.state)),
                         !.pc = Edge("increment_counter", cv.variant),
                         !.step = @ + 1]
    ELSE [cv EXCEPT !.state = ApplyWrites(cv.state, ToolNode(cv.state, fails)),
                    !.pc = Edge("tools", cv.variant),
                    !.step = @ + 1]

(* Variant of ConvWrite: the counter is kept in one place for all          *)
(* conversations.                                                          *)
ConvWrite_shared_counter(cs, c, new) ==
    [d \in DOMAIN cs |->
        IF d = c THEN new
        ELSE [cs[d] EXCEPT !.state =
                [k \in DOMAIN cs[d].state \cup {"tool_call_count"} |->
                    IF k = "tool_call_count" THEN Count(new.state) ELSE cs[d].state[k]]]]

(* The writes of a node go to the channels of the invoke that ran it.      *)
ConvWrite(cs, c, new) == [cs EXCEPT ![c] = new]

(* No single invoke in progress: the variables of Spec are parked.         *)
Parked ==
    /\ variant = "simple"
    /\ state = [messages |-> <<>>]
    /\ init_state = state
    /\ pc = "parked"
    /\ step = 0
    /\ trace = <<>>
    /\ invocations = 0
    /\ decided_at = -1
    /\ welcomed = <<>>
    /\ report = NoReport
    /\ turn = 1
    /\ RegistryIdle
    /\ ToolsIdle

ConcurrentInputs(v) ==
    {i \in (IF v = "simple" THEN SimpleInputs ELSE AdvancedInputs) :
        /\ Len(i["messages"]) = 1
        /\ "tool_call_count" \in DOMAIN i
        /\ i["tool_call_count"] \in ConversationCounts}

ConcurrentInit ==
    /\ Parked
    /\ tool_fails \in BOOLEAN
    /\ \E v \in {"simple", "advanced"} :
       \E i1 \in ConcurrentInputs("simple"), i2 \in ConcurrentInputs(v) :
            convs = [c \in Conversations |->
                        IF c = 1 THEN Conversation("simple", i1) ELSE Conversation(v, i2)]

ConcurrentChatStep(c, r, raised) ==
    /\ IsChat(convs[c].pc)
    /\ convs' = ConvWrite(convs, c, NodeStep(convs[c], r, raised, tool_fails))
    /\ UNCHANGED <<runvars, regvars, turn, toolvars>>

ConcurrentChatResponds ==
    \E c \in Conversations, r \in ModelResponses : ConcurrentChatStep(c, r, FALSE)

ConcurrentChatRaises ==
    \E c \in Conversations : ConcurrentChatStep(c, [content |-> "", tool_calls |-> <<>>], TRUE)

ConcurrentIncrement ==
    \E c \in Conversations :
        /\ convs[c].pc = "increment_counter"
        /\ convs' = ConvWrite(convs, c,
                        NodeStep(convs[c], [content |-> "", tool_calls |-> <<>>], FALSE, tool_fails))
        /\ UNCHANGED <<runvars, regvars, turn, toolvars>>

ConcurrentTools ==
    \E c \in Conversations :
        /\ convs[c].pc = "tools"
        /\ convs' = ConvWrite(convs, c,
                        NodeStep(convs[c], [content |-> "", tool_calls |-> <<>>], FALSE, tool_fails))
        /\ UNCHANGED <<runvars, regvars, turn, toolvars>>

(* Conversations that start within one dispatch round of the ceiling never *)
(* use up their recursion_limit.                                           *)
ConcurrentNext ==
    \/ ConcurrentChatResponds
    \/ ConcurrentChatRaises
    \/ ConcurrentIncrement
    \/ ConcurrentTools

ConcurrentSpec == ConcurrentInit /\ [][ConcurrentNext]_vars

(* What conversation c can become by one step of its own. *)
OwnSteps(cv) ==
    {NodeStep(cv, r, FALSE, tool_fails) : r \in ModelResponses}
    \cup {NodeStep(cv, [content |-> "", tool_calls |-> <<>>], TRUE, tool_fails)}

----------------------------------------------------------------------------
(* The simple and the advanced graph side by side on the same input and    *)
(* the same model: conversation 1 runs graph, conversation 2 runs          *)
(* advanced_graph, and every step hands both the same model answer.        *)

NodeKind(n) == IF IsChat(n) THEN "chat" ELSE n

LockstepInit ==
    /\ Parked
    /\ tool_fails \in BOOLEAN
    /\ \E i1 \in SimpleInputs, i2 \in AdvancedInputs :
            /\ i1["messages"] = i2["messages"]
            /\ Count(i1) = Count(i2)
            /\ convs = [c \in Conversations |->
                            IF c = 1 THEN Conversation("simple", i1)
                            ELSE Conversation("advanced", i2)]

(* Both graphs execute their scheduled node. *)
LockstepStep(kind, r, raised) ==
    /\ convs[1].pc \in Nodes
    /\ convs[1].step < recursion_limit
    /\ NodeKind(convs[1].pc) = kind
    /\ convs' = [c \in Conversations |-> NodeStep(convs[c], r, raised, tool_fails)]
    /\ UNCHANGED <<runvars, regvars, turn, toolvars>>

LockstepChatResponds == \E r \in ModelResponses : LockstepStep("chat", r, FALSE)

LockstepChatRaises == LockstepStep("chat", [content |-> "", tool_calls |-> <<>>], TRUE)

LockstepIncrement == LockstepStep("increment_counter", [content |-> "", tool_calls |-> <<>>], FALSE)

LockstepTools == LockstepStep("tools", [content |-> "", tool_calls |-> <<>>], FALSE)

LockstepAbort ==
    /\ convs[1].pc \in Nodes
    /\ convs[1].step >= recursion_limit
    /\ convs' = [c \in Conversations |->
                    NodeStep(convs[c], [content |-> "", tool_calls |-> <<>>], FALSE, tool_fails)]
    /\ UNCHANGED <<runvars, regvars, turn, toolvars>>

LockstepNext ==
    \/ LockstepChatResponds
    \/ LockstepChatRaises
    \/ LockstepIncrement
    \/ LockstepTools
    \/ LockstepAbort

LockstepSpec == LockstepInit /\ [][LockstepNext]_vars

----------------------------------------------------------------------------
(* The registry on its own: a module is imported (its globals are          *)
(* assigned), its graph is built, and afterwards chat steps bind the model *)
(* to the tools (create_llm) while, in main_platform_ready.py, main() may  *)
(* run initialize_platform_tools once more.                                *)

RunIdle ==
    /\ variant = "simple"
    /\ state = [messages |-> <<>>]
    /\ init_state = state
    /\ pc = "registry"
    /\ step = 0
    /\ tool_fails = FALSE
    /\ trace = <<>>
    /\ invocations = 0
    /\ decided_at = -1
    /\ welcomed = <<>>
    /\ report = NoReport

RegistryInit ==
    /\ RunIdle
    /\ SessionIdle
    /\ ToolsIdle
    /\ module \in Modules
    /\ env \in Environments
    /\ rpc = "import"
    /\ all_tools = <<>>
    /\ node_tools = <<>>
    /\ bound_tools = <<>>
    /\ bindings = 0

(* GUARANTEED_TOOLS = create_guaranteed_tools() *)
ImportFixed ==
    /\ rpc = "import"
    /\ module \in FixedModules
    /\ LET created == create_guaranteed_tools(env)
       IN  IF created.raised
           THEN rpc' = "ImportError" /\ UNCHANGED all_tools
           ELSE rpc' = "globals" /\ all_tools' = created.value
    /\ UNCHANGED <<runvars, sessionvars, toolvars, module, env, node_tools, bound_tools, bindings>>

(* search_tool = get_search_tool(); salesforce_tools = []; all_tools = []  *)
ImportPlatformReady ==
    /\ rpc = "import"
    /\ module = "main_platform_ready"
    /\ rpc' = IF get_search_tool(env).raised THEN "ImportError" ELSE "globals"
    /\ all_tools' = <<>>
    /\ UNCHANGED <<runvars, sessionvars, toolvars, module, env, node_tools, bound_tools, bindings>>

(* graph = create_recursion_safe_graph(): ToolNode(GUARANTEED_TOOLS) *)
BuildGraphFixed ==
    /\ rpc = "globals"
    /\ module \in FixedModules
    /\ node_tools' = all_tools
    /\ rpc' = "built"
    /\ UNCHANGED <<runvars, sessionvars, toolvars, module, env, all_tools, bound_tools, bindings>>

(* graph = create_platform_graph(): tools = get_tools_sync(); ToolNode(tools) *)
BuildGraphPlatformReady ==
    /\ rpc = "globals"
    /\ module = "main_platform_ready"
    /\ \E run_raises \in BOOLEAN, outcome \in SalesforceOutcomes :
          LET got == get_tools_sync(all_tools, env, get_search_tool(env).value, run_raises, outcome)
          IN  /\ node_tools' = got.returned
              /\ all_tools' = got.all_tools
    /\ rpc' = "built"
    /\ UNCHANGED <<runvars, sessionvars, toolvars, module, env, bound_tools, bindings>>

(* A chat step of a fixed module: llm.bind_tools(GUARANTEED_TOOLS) *)
CreateLLMFixed ==
    /\ rpc = "built"
    /\ module \in FixedModules
    /\ bindings < MaxBindings
    /\ bound_tools' = all_tools
    /\ bindings' = bindings + 1
    /\ UNCHANGED <<runvars, sessionvars, toolvars, module, env, rpc, all_tools, node_tools>>

(* A chat step of main_platform_ready.py: llm.bind_tools(get_tools_sync()) *)
CreateLLMPlatformReady ==
    /\ rpc \in {"built", "main"}
    /\ module = "main_platform_ready"
    /\ bindings < MaxBindings
    /\ \E run_raises \in BOOLEAN, outcome \in SalesforceOutcomes :
          LET got == get_tools_sync(all_tools, env, get_search_tool(env).value, run_raises, outcome)
          IN  /\ bound_tools' = got.returned
              /\ all_tools' = got.all_tools
    /\ bindings' = bindings + 1
    /\ UNCHANGED <<runvars, sessionvars, toolvars, module, env, rpc, node_tools>>

(* main() of main_platform_ready.py: asyncio.run(initialize_platform_tools()) *)
MainInitializes ==
    /\ rpc = "built"
    /\ module = "main_platform_ready"
    /\ \E outcome \in SalesforceOutcomes :
          all_tools' = initialize_platform_tools(env, get_search_tool(env).value, outcome)
    /\ rpc' = "main"
    /\ UNCHANGED <<runvars, sessionvars, toolvars, module, env, node_tools, bound_tools, bindings>>

RegistryNext ==
    \/ ImportFixed
    \/ ImportPlatformReady
    \/ BuildGraphFixed
    \/ BuildGraphPlatformReady
    \/ CreateLLMFixed
    \/ CreateLLMPlatformReady
    \/ MainInitializes

RegistrySpec == RegistryInit /\ [][RegistryNext]_vars

GraphBuilt == rpc \in {"built", "main"}

BothCredentials == Truthy(env.SALESFORCE_USERNAME) /\ Truthy(env.SALESFORCE_PASSWORD)

----------------------------------------------------------------------------
(* The tool interface: one registered tool of main_recursion_fixed.py or   *)
(* main_platform_fixed.py is invoked with a text argument.  The registry   *)
(* entries built with Tool(name=..., func=f) are single-input tools: the   *)
(* interface calls f with exactly one positional argument.                 *)

ToolInputs == {"", "what can you do"}

(* Tool._to_args_and_kwargs: the positional arguments handed to func. *)
to_args(tool_input) == <<tool_input>>

(* How many parameters the wrapped function declares:                      *)
(* fallback_search(query), guaranteed_soql_query(query),                   *)
(* guaranteed_object_describe(object_name), salesforce_status(),           *)
(* help_tool().                                                            *)
FunctionParameters(n) == IF n \in {"help", "salesforce_status"} THEN 0 ELSE 1

(* A Python call of a function with nparams parameters, none of them with  *)
(* a default, on the positional arguments args: TypeError unless the       *)
(* counts agree.                                                           *)
CallFunction(nparams, args, result) ==
    IF Len(args) = nparams THEN Return(result) ELSE Raise

(* help_tool(): the listing of the names in the enclosing list `tools`,    *)
(* read when the function runs, by which time "help" has been appended.    *)
help_tool(tools) == tools

(* What the body of the wrapped function of tool n returns. *)
FunctionResult(n, tools) == IF n = "help" THEN help_tool(tools) ELSE <<"result">>

(* Tool._run: func is called on the arguments.  TavilySearch is a tool     *)
(* class of its own and takes the text as its query.                       *)
Tool_run(n, tools, tool_input) ==
    IF n = "tavily_search" THEN Return(<<"result">>)
    ELSE CallFunction(FunctionParameters(n), to_args(tool_input), FunctionResult(n, tools))

ToolCallInit ==
    /\ RunIdle
    /\ SessionIdle
    /\ ToolsIdle
    /\ module \in FixedModules
    /\ env \in Environments
    /\ ~create_guaranteed_tools(env).raised
    /\ rpc = "built"
    /\ all_tools = create_guaranteed_tools(env).value
    /\ node_tools = all_tools
    /\ bound_tools = <<>>
    /\ bindings = 0

(* tool.invoke(tool_input) on one of the registered tools. *)
InvokeTool ==
    /\ \E i \in 1..Len(all_tools), tool_input \in ToolInputs :
            call' = [tool |-> all_tools[i],
                     tool_input |-> tool_input,
                     outcome |-> Tool_run(all_tools[i], all_tools, tool_input)]
    /\ UNCHANGED <<runvars, regvars, sessionvars, wrapper>>

ToolCallNext == InvokeTool

ToolCallSpec == ToolCallInit /\ [][ToolCallNext]_vars

----------------------------------------------------------------------------
(* salesforce_platform_ready.py: a PlatformSalesforceMCPWrapper object,    *)
(* the calls of initialize() made on it, and                               *)
(* create_platform_ready_salesforce_tools, which makes an object of its    *)
(* own.  wrapper.obj holds the object's fields, wrapper.log the calls made *)
(* so far with what they returned.                                         *)

(* _detect_platform_mode *)
PlatformModes == {"platform", "platform_no_nodejs", "local"}

(* What load_mcp_tools does when it is reached: it yields the server's     *)
(* tools, yields an empty list, or raises.                                 *)
McpAttempts == {"tools", "empty", "raises"}

(* __init__ *)
PlatformSalesforceMCPWrapper(mode) ==
    [tools |-> <<>>, is_initialized |-> FALSE, platform_mode |-> mode]

(* _try_mcp_integration: [] without Node.js and on any exception. *)
try_mcp_integration(w, attempt) ==
    IF w.platform_mode = "platform_no_nodejs" THEN <<>>
    ELSE IF attempt = "tools" THEN McpTools
    ELSE <<>>

(* _create_fallback_tools *)
create_fallback_tools == <<"salesforce_query", "salesforce_describe">>

(* Variant of initialize: no fallback to the direct API tools.             *)
platform_initialize_no_fallback(w, attempt) ==
    LET mcp_tools == try_mcp_integration(w, attempt)
    IN  IF mcp_tools # <<>>
        THEN [obj |-> [w EXCEPT !.tools = mcp_tools, !.is_initialized = TRUE], returned |-> TRUE]
        ELSE [obj |-> [w EXCEPT !.tools = mcp_tools], returned |-> FALSE]

(* initialize: the object afterwards and the returned bool. *)
platform_initialize(w, attempt) ==
    LET mcp_tools == try_mcp_integration(w, attempt)
        tools == IF mcp_tools # <<>> THEN mcp_tools ELSE create_fallback_tools
    IN  IF tools # <<>>
        THEN [obj |-> [w EXCEPT !.tools = tools, !.is_initialized = TRUE], returned |-> TRUE]
        ELSE [obj |-> [w EXCEPT !.tools = tools], returned |-> FALSE]

(* is_ready *)
is_ready(w) == w.is_initialized /\ Len(w.tools) > 0

(* create_platform_ready_salesforce_tools as its code computes it: a new   *)
(* wrapper, initialize(), then get_tools() or [].                          *)
platform_ready_tools(mode, attempt) ==
    LET done == platform_initialize(PlatformSalesforceMCPWrapper(mode), attempt)
    IN  IF done.returned THEN done.obj.tools ELSE <<>>

(* The registry variables of a run that only handles a wrapper object. *)
WrapperRegistryIdle ==
    /\ env = RunEnv
    /\ rpc = "built"
    /\ all_tools = <<>>
    /\ node_tools = <<>>
    /\ bound_tools = <<>>
    /\ bindings = 0

PlatformWrapperInit ==
    /\ RunIdle
    /\ SessionIdle
    /\ call = NoCall
    /\ module = "salesforce_platform_ready"
    /\ WrapperRegistryIdle
    /\ \E mode \in PlatformModes :
            wrapper = [obj |-> PlatformSalesforceMCPWrapper(mode), log |-> <<>>]

(* await wrapper.initialize() *)
PlatformInitialize ==
    /\ Len(wrapper.log) < MaxCalls
    /\ \E attempt \in McpAttempts :
            LET done == platform_initialize(wrapper.obj, attempt)
            IN  wrapper' = [obj |-> done.obj,
                            log |-> Append(wrapper.log,
                                           [op |-> "initialize", attempt |-> attempt,
                                            returned |-> done.returned,
                                            tools |-> done.obj.tools])]
    /\ UNCHANGED <<runvars, regvars, sessionvars, call>>

(* await create_platform_ready_salesforce_tools(): the object at hand is   *)
(* not touched, the call works on a wrapper of its own.                    *)
CreatePlatformReadyTools ==
    /\ Len(wrapper.log) < MaxCalls
    /\ \E attempt \in McpAttempts :
            LET mode == wrapper.obj.platform_mode
                done == platform_initialize(PlatformSalesforceMCPWrapper(mode), attempt)
            IN  wrapper' = [wrapper EXCEPT
                                !.log = Append(wrapper.log,
                                               [op |-> "create", attempt |-> attempt,
                                                returned |-> done.returned,
                                                tools |-> platform_ready_tools(mode, attempt)])]
    /\ UNCHANGED <<runvars, regvars, sessionvars, call>>

PlatformWrapperNext == PlatformInitialize \/ CreatePlatformReadyTools

PlatformWrapperSpec == PlatformWrapperInit /\ [][PlatformWrapperNext]_vars

(* The tools an initialize() with this MCP attempt is to end with. *)
ExpectedPlatformTools(mode, attempt) ==
    IF mode # "platform_no_nodejs" /\ attempt = "tools" THEN McpTools
    ELSE <<"salesforce_query", "salesforce_describe">>

----------------------------------------------------------------------------
(* salesforce_mcp_wrapper.py: a SalesforceMCPWrapper object and the calls  *)
(* of initialize() and cleanup() made on it, until it is destroyed.        *)

(* __init__ *)
SalesforceMCPWrapper == [tools |-> <<>>, is_initialized |-> FALSE]

(* load_salesforce_tools: self.tools is assigned the loaded list and       *)
(* is_initialized is set, whatever the length of the list; when            *)
(* _create_mcp_connection or load_mcp_tools raises, the except branch      *)
(* returns [] and leaves both fields as they were.                         *)
load_salesforce_tools(w, attempt) ==
    CASE attempt = "tools" ->
            [obj |-> [w EXCEPT !.tools = McpTools, !.is_initialized = TRUE],
             returned |-> McpTools]
      [] attempt = "empty" ->
            [obj |-> [w EXCEPT !.tools = <<>>, !.is_initialized = TRUE],
             returned |-> <<>>]
      [] attempt = "raises" ->
            [obj |-> w, returned |-> <<>>]

(* initialize: True exactly when load_salesforce_tools returned a          *)
(* non-empty list.                                                         *)
initialize(w, attempt) ==
    LET loaded == load_salesforce_tools(w, attempt)
    IN  [obj |-> loaded.obj, returned |-> (loaded.returned # <<>>)]

(* cleanup *)
cleanup(w) == [w EXCEPT !.tools = <<>>, !.is_initialized = FALSE]

(* __del__ *)
del(w) == IF w.is_initialized THEN cleanup(w) ELSE w

(* The object is still referenced: __del__ has not run. *)
Alive == IF wrapper.log = <<>> THEN TRUE ELSE Last(wrapper.log).op # "del"

WrapperInit ==
    /\ RunIdle
    /\ SessionIdle
    /\ call = NoCall
    /\ module = "salesforce_mcp_wrapper"
    /\ WrapperRegistryIdle
    /\ wrapper = [obj |-> SalesforceMCPWrapper, log |-> <<>>]

(* await wrapper.initialize() *)
WrapperInitialize ==
    /\ Alive
    /\ Len(wrapper.log) < MaxCalls
    /\ \E attempt \in McpAttempts :
            LET done == initialize(wrapper.obj, attempt)
            IN  wrapper' = [obj |-> done.obj,
                            log |-> Append(wrapper.log,
                                           [op |-> "initialize", attempt |-> attempt,
                                            returned |-> done.returned,
                                            tools |-> done.obj.tools])]
    /\ UNCHANGED <<runvars, regvars, sessionvars, call>>

(* wrapper.cleanup() *)
WrapperCleanup ==
    /\ Alive
    /\ Len(wrapper.log) < MaxCalls
    /\ wrapper' = [obj |-> cleanup(wrapper.obj),
                    log |-> Append(wrapper.log,
                                   [op |-> "cleanup", attempt |-> "", returned |-> FALSE,
                                    tools |-> cleanup(wrapper.obj).tools])]
    /\ UNCHANGED <<runvars, regvars, sessionvars, call>>

(* The last reference goes away: __del__ runs. *)
WrapperDel ==
    /\ Alive
    /\ wrapper' = [obj |-> del(wrapper.obj),
                    log |-> Append(wrapper.log,
                                   [op |-> "del", attempt |-> "", returned |-> FALSE,
                                    tools |-> del(wrapper.obj).tools])]
    /\ UNCHANGED <<runvars, regvars, sessionvars, call>>

WrapperNext == WrapperInitialize \/ WrapperCleanup \/ WrapperDel

WrapperSpec == WrapperInit /\ [][WrapperNext]_vars

(* The positions of the initialize() calls in the log of calls. *)
InitializeCalls == {i \in 1..Len(wrapper.log) : wrapper.log[i].op = "initialize"}

(* The most recent initialize() call: the position of the latest one. *)
LatestInitialize == CHOOSE i \in InitializeCalls : \A j \in InitializeCalls : j <= i

----------------------------------------------------------------------------
(* History read-outs *)

RECURSIVE CountOf(_, _)
CountOf(s, n) ==
    IF s = <<>> THEN 0 ELSE (IF Head(s) = n THEN 1 ELSE 0) + CountOf(Tail(s), n)

DispatchRounds == CountOf(trace, "tools")

Increments == CountOf(trace, "increment_counter")

Messages == state["messages"]

(* Every model response of the run so far carried tool requests. *)
EveryResponseRequestsTools ==
    /\ \E i \in 1..Len(Messages) : Messages[i].type = "ai"
    /\ \A i \in 1..Len(Messages) : Messages[i].type = "ai" => Messages[i].tool_calls # <<>>

(* left is a prefix of right. *)
IsPrefix(left, right) ==
    /\ Len(left) <= Len(right)
    /\ SubSeq(right, 1, Len(left)) = left

(* The latest dispatch round answered a request for an unregistered tool.  *)
LastRoundHadUnknownTool ==
    /\ trace # <<>>
    /\ Last(trace) = "tools"
    /\ Last(Messages).type = "tool"
    /\ Last(Messages).content = "unknown tool"

(* The tool-result messages answering call id c. *)
ResultsFor(c) == {i \in 1..Len(Messages) : Messages[i].type = "tool" /\ Messages[i].tool_call_id = c}

(* conversation_count as the advanced chat node reads it (absent: 0). *)
ConversationCount(st) == Get(st, "conversation_count", 0)

(* The messages this run has added to the history it was invoked with. *)
AddedMessages == SubSeq(Messages, Len(init_state["messages"]) + 1, Len(Messages))

(* Chat executions of the run whose model call succeeded: each added its   *)
(* response; a failed one added the error message of the except branch,    *)
(* which no model response equals.                                         *)
SuccessfulModelCalls ==
    Cardinality({i \in 1..Len(AddedMessages) :
                    AddedMessages[i].type = "ai" /\ AddedMessages[i].content # "error"})

(* Chat executions of the run that ended in the except branch. *)
FailedModelCalls ==
    Cardinality({i \in 1..Len(AddedMessages) :
                    AddedMessages[i].type = "ai" /\ AddedMessages[i].content = "error"})

----------------------------------------------------------------------------
(* Properties *)

(* C1: every run invoked with recursion_limit = MAX_RECURSION_LIMIT stops, *)
(* at END or by the GraphRecursionError abort, and never performs more     *)
(* than MAX_RECURSION_LIMIT node executions.                               *)
C1_Termination == [](step <= MAX_RECURSION_LIMIT) /\ <>Terminated

C1_Witness == Terminated /\ step = MAX_RECURSION_LIMIT

(* C2: in every state of a run invoked with tool_call_count <= 5 (absent   *)
(* counts as 0), tool_call_count <= MAX_TOOL_CALLS_PER_CONVERSATION.       *)
C2_BudgetRespected ==
    Count(init_state) <= MAX_TOOL_CALLS_PER_CONVERSATION
        => Count(state) <= MAX_TOOL_CALLS_PER_CONVERSATION

C2_Witness ==
    /\ pc = END
    /\ Count(init_state) < MAX_TOOL_CALLS_PER_CONVERSATION
    /\ Count(state) = MAX_TOOL_CALLS_PER_CONVERSATION

(* C3: a run started at tool_call_count = 0 in which the model requests    *)
(* tools on every turn ends at END with tool_call_count = 5, not by the    *)
(* GraphRecursionError abort.                                              *)
C3_StopsByPolicyAtFive ==
    (Terminated /\ Count(init_state) = 0 /\ EveryResponseRequestsTools)
        => (pc = END /\ Count(state) = MAX_TOOL_CALLS_PER_CONVERSATION)

C5_NoDispatchAtCeiling ==
    /\ (pc \in {"increment_counter", "tools"} \/ (trace # <<>> /\ Last(trace) = "tools"))
            => decided_at < MAX_TOOL_CALLS_PER_CONVERSATION
    /\ Count(init_state) <= MAX_TOOL_CALLS_PER_CONVERSATION
            => DispatchRounds <= MAX_TOOL_CALLS_PER_CONVERSATION - Count(init_state)

C5_Witness ==
    /\ pc = END
    /\ Count(init_state) = 1
    /\ DispatchRounds = MAX_TOOL_CALLS_PER_CONVERSATION - 1
    /\ Last(Messages).tool_calls # <<>>

(* C6 as stated: within an iteration the tools node runs before            *)
(* tool_call_count is incremented, so the number of increments never       *)
(* exceeds the number of completed dispatch rounds.                        *)
C6_DispatchBeforeIncrement == Increments <= DispatchRounds

(* C6 as amended: within an iteration tool_call_count is incremented       *)
(* first and the tools node runs next: the node order is chat,             *)
(* increment_counter, tools, chat.                                         *)
C6_IncrementBeforeDispatch ==
    /\ \A i \in 1..Len(trace) :
        /\ trace[i] = "tools" => (i > 1 /\ trace[i - 1] = "increment_counter")
        /\ trace[i] = "increment_counter" => (i > 1 /\ IsChat(trace[i - 1]))
        /\ (IsChat(trace[i]) /\ i > 1) => trace[i - 1] = "tools"
    /\ pc = "tools" <=> Increments = DispatchRounds + 1
    /\ pc # "tools" => Increments = DispatchRounds
    /\ pc = "tools" => Last(Messages).type = "ai"

C6_Witness ==
    /\ trace # <<>>
    /\ Last(trace) = "tools"
    /\ Last(Messages).type = "tool"
    /\ Count(state) = Count(init_state) + 1

(* C7: tool_call_count grows by exactly 1 per iteration whatever the       *)
(* number of tool requests of the assistant message: it equals the initial *)
(* value plus the number of increment_counter executions, one per dispatch *)
(* round, while the individual invocations may be more.                    *)
C7_OnePerIteration ==
    /\ Count(state) = Count(init_state) + Increments
    /\ IsChat(pc) \/ Terminated => (Increments = DispatchRounds \/ pc = "GraphRecursionError")
    /\ invocations >= DispatchRounds

C7_Witness ==
    /\ pc = END
    /\ invocations > MAX_TOOL_CALLS_PER_CONVERSATION
    /\ Count(state) <= MAX_TOOL_CALLS_PER_CONVERSATION

(* C8: at END every tool invocation request of the history has exactly one *)
(* tool-result message.                                                    *)
C8_EveryRequestAnswered ==
    pc = END =>
        \A i \in 1..Len(Messages) :
            \A j \in 1..Len(Messages[i].tool_calls) :
                Cardinality(ResultsFor(Messages[i].tool_calls[j].id)) = 1

(* C9: when the model call raises, the chat node appends exactly one       *)
(* assistant message without tool requests that describes the error,       *)
(* leaves tool_call_count as it was, and the policy answers END.           *)
C9_ModelFailureAbsorbed ==
    [][(IsChat(pc) /\ step' = step + 1 /\ Last(state'["messages"]).content = "error")
        => /\ Len(state'["messages"]) = Len(Messages) + 1
           /\ SubSeq(state'["messages"], 1, Len(Messages)) = Messages
           /\ Last(state'["messages"]).type = "ai"
           /\ Last(state'["messages"]).tool_calls = <<>>
           /\ Count(state') = Count(state)
           /\ pc' = END]_vars

C9_Witness ==
    /\ pc = END
    /\ Last(Messages).content = "error"
    /\ DispatchRounds >= 1
    /\ Count(state) = Count(init_state) + DispatchRounds

(* C10: when every tool invocation fails, no run ends abnormally: it       *)
(* reaches END, and the failures it met are in the history as messages.    *)
C10_FailureContained ==
    (tool_fails /\ Terminated) =>
        /\ pc = END
        /\ \A i \in 1..Len(Messages) :
            \A j \in 1..Len(Messages[i].tool_calls) :
                \A k \in ResultsFor(Messages[i].tool_calls[j].id) :
                    Messages[k].content \in {"error", "unknown tool"}

(* C11: a run that uses up its recursion_limit ends in the                 *)
(* GraphRecursionError abort, which is not END: invoke raises, and every   *)
(* harness reports the run as failed (test_scenario returns success =      *)
(* False; test_recursion_scenario and verify_fix report a recursion        *)
(* error).  Only a run that reached END is reported as a success.          *)
C11_AbortReportedAsFailure ==
    /\ pc = "GraphRecursionError" => (pc # END /\ step = recursion_limit)
    /\ (report.reported /\ pc = "GraphRecursionError") =>
            /\ ~report.test_scenario.success
            /\ ~report.test_recursion_scenario.success
            /\ report.test_recursion_scenario.printed = "RECURSION ERROR STILL EXISTS"
            /\ ~report.verify_fix.all_passed
            /\ report.verify_fix.printed = "RECURSION ERROR"
    /\ (report.reported /\ (\/ report.test_scenario.success
                             \/ report.test_recursion_scenario.success
                             \/ report.verify_fix.all_passed)) => pc = END

C11_Witness == pc = "GraphRecursionError" /\ report.reported

C13_WelcomeOnFirstTurnOnly ==
    variant = "simple" =>
        /\ Len(welcomed) >= 1 => welcomed[1]
        /\ \A i \in 2..Len(welcomed) : ~welcomed[i]

(* C17: tool_call_count (absent: 0) never decreases from one step to the   *)
(* next; only increment_counter changes it, by exactly one; chat and tools *)
(* leave it as it is.                                                      *)
C17_CountNeverDecreases ==
    [][/\ Count(state') >= Count(state)
       /\ Count(state') # Count(state) =>
                (pc = "increment_counter" /\ Count(state') = Count(state) + 1)
       /\ (IsChat(pc) \/ pc = "tools") => Count(state') = Count(state)]_vars

C17_Witness ==
    /\ pc = END
    /\ variant = "advanced"
    /\ Count(state) = Count(init_state) + 2

(* C18: whenever a chat step is about to run, tool_call_count equals its   *)
(* initial value plus the number of completed dispatch rounds (so 1 after  *)
(* the first round from 0), and a run never stops right after a dispatch   *)
(* round: the chat node runs again after it.                               *)
C18_CountTracksRounds ==
    /\ IsChat(pc) => Count(state) = Count(init_state) + DispatchRounds
    /\ (IsChat(pc) /\ Count(init_state) = 0 /\ DispatchRounds = 1) => Count(state) = 1
    /\ (Terminated /\ trace # <<>>) => Last(trace) # "tools"

(* C19: END is entered only by a chat step, the last message at END is the *)
(* assistant message that chat step appended, and a run that has not       *)
(* aborted can stop nowhere but at END.                                    *)
C19_EndOnlyFromChat ==
    /\ [](pc = END => (trace # <<>> /\ IsChat(Last(trace)) /\ Last(Messages).type = "ai"))
    /\ [][(pc' = END /\ pc # END) =>
            /\ IsChat(pc)
            /\ Len(state'["messages"]) = Len(state["messages"]) + 1
            /\ Last(state'["messages"]).type = "ai"]_vars
    /\ []((~ENABLED InvokeStep) => pc \in {END, "GraphRecursionError"})

C19_Witness == pc = END /\ DispatchRounds >= 1 /\ Last(Messages).content = "plain"

(* C20: when the first response of the run carries no tool invocation      *)
(* requests, the run is at END after exactly one chat execution, without   *)
(* any increment_counter or tools execution and with tool_call_count       *)
(* (absent: 0) as it was at the start.                                     *)
C20_NoToolsEndsAfterOneChat ==
    (/\ trace # <<>>
     /\ Messages[Len(init_state["messages"]) + 1].tool_calls = <<>>)
        => /\ pc = END
           /\ Len(trace) = 1
           /\ IsChat(trace[1])
           /\ Increments = 0
           /\ DispatchRounds = 0
           /\ invocations = 0
           /\ Count(state) = Count(init_state)

C20_Witness ==
    /\ pc = END
    /\ trace = <<"chat">>
    /\ Last(Messages).content = "plain"
    /\ "tool_call_count" \notin DOMAIN init_state

(* C14: the registry is never empty and building it never fails:           *)
(* create_guaranteed_tools yields a search tool first and the help tool    *)
(* last for every combination of TAVILY_API_KEY, TavilySearch construction *)
(* raising or not, and Salesforce credentials; and what get_tools_sync     *)
(* returns to the graph builder and to create_llm is never empty, also     *)
(* when the initialization raises.                                         *)
C14_RegistryNeverEmpty ==
    /\ module \in FixedModules =>
            /\ rpc # "ImportError"
            /\ rpc # "import" =>
                    /\ Len(all_tools) >= 2
                    /\ IsSearchTool(all_tools[1])
                    /\ all_tools[Len(all_tools)] = "help"
    /\ module = "main_platform_ready" =>
            /\ GraphBuilt => node_tools # <<>>
            /\ bindings > 0 => bound_tools # <<>>

C14_Witness ==
    /\ module = "main_recursion_fixed"
    /\ Truthy(env.TAVILY_API_KEY)
    /\ env.tavily_raises
    /\ rpc = "built"
    /\ all_tools = <<"search", "help">>

(* C15: after the graph is built the tools bound to the model at a chat    *)
(* step are exactly the tools held by the graph's tools node, in every     *)
(* variant, main_platform_ready.py included.                               *)
C15_BoundToolsAreNodeTools ==
    (GraphBuilt /\ bindings > 0) => bound_tools = node_tools

(* C16: create_guaranteed_tools includes salesforce_status,                *)
(* salesforce_query and salesforce_describe exactly when both              *)
(* SALESFORCE_USERNAME and SALESFORCE_PASSWORD are configured; otherwise   *)
(* the import does not fail and the registry is the search tool followed   *)
(* by the help tool.                                                       *)
C16_SalesforceIffConfigured ==
    (module \in FixedModules /\ rpc # "import") =>
        /\ BothCredentials =>
                /\ Len(all_tools) = 5
                /\ IsSearchTool(all_tools[1])
                /\ SubSeq(all_tools, 2, 4)
                        = <<"salesforce_status", "salesforce_query", "salesforce_describe">>
                /\ all_tools[5] = "help"
        /\ ~BothCredentials =>
                /\ rpc # "ImportError"
                /\ Len(all_tools) = 2
                /\ IsSearchTool(all_tools[1])
                /\ all_tools[2] = "help"

C16_Witness ==
    /\ module = "main_recursion_fixed"
    /\ rpc = "built"
    /\ env.SALESFORCE_USERNAME = "value"
    /\ env.SALESFORCE_PASSWORD = ""
    /\ Len(all_tools) = 2

(* C21: when the tools node runs on a last message with N tool invocation  *)
(* requests it appends exactly N tool-result messages, the i-th carrying   *)
(* the call id and the name of the i-th request.                           *)
C21_ResultsInRequestOrder ==
    [][pc = "tools" =>
        LET calls == Last(Messages).tool_calls
            after == state'["messages"]
        IN  /\ Len(after) = Len(Messages) + Len(calls)
            /\ IsPrefix(Messages, after)
            /\ \A i \in 1..Len(calls) :
                    /\ after[Len(Messages) + i].type = "tool"
                    /\ after[Len(Messages) + i].tool_call_id = calls[i].id
                    /\ after[Len(Messages) + i].name = calls[i].name]_vars

C21_Witness ==
    /\ trace # <<>>
    /\ Last(trace) = "tools"
    /\ Len(Messages) >= 3
    /\ Len(Messages[Len(Messages) - 2].tool_calls) = 2
    /\ Messages[Len(Messages) - 1].type = "tool"
    /\ Messages[Len(Messages)].type = "tool"

(* C22: a request for a tool that is not in the registry is answered by a  *)
(* tool-result message reporting the unknown tool, and after that dispatch *)
(* round the run goes on with the next chat turn: it does not end in an    *)
(* exception.                                                              *)
C22_UnknownToolRecovered ==
    /\ \A i \in 1..Len(Messages) :
            \A j \in 1..Len(Messages[i].tool_calls) :
                Messages[i].tool_calls[j].name \notin ToolNames =>
                    \A k \in ResultsFor(Messages[i].tool_calls[j].id) :
                        Messages[k].content = "unknown tool"
    /\ LastRoundHadUnknownTool => IsChat(pc)

(* C23: the nodes of a run execute one at a time in the order chat,        *)
(* (increment_counter, tools, chat)*: tools only right after               *)
(* increment_counter, increment_counter only right after a chat step whose *)
(* policy decision was "tools".                                            *)
C23_NodeSequence ==
    /\ [](/\ step = Len(trace)
          /\ \A i \in 1..Len(trace) :
                /\ i = 1 => IsChat(trace[i])
                /\ (i > 1 /\ IsChat(trace[i])) => trace[i - 1] = "tools"
                /\ trace[i] = "tools" => (i > 1 /\ trace[i - 1] = "increment_counter")
                /\ trace[i] = "increment_counter" => (i > 1 /\ IsChat(trace[i - 1])))
    /\ [][/\ Len(trace') <= Len(trace) + 1
          /\ (pc' = "increment_counter" /\ pc # "increment_counter") =>
                (IsChat(pc) /\ Policy(variant, state') = "tools")]_vars

C23_Witness ==
    /\ pc = END
    /\ Len(trace) = 7
    /\ trace[5] = "increment_counter"
    /\ trace[6] = "tools"
    /\ trace[7] = "chat"

(* C24: the message history is append-only: every step leaves the previous *)
(* history as a prefix of the new one, no message id occurs twice, and     *)
(* increment_counter, which writes the whole state back, leaves the        *)
(* history exactly as it was.                                              *)
C24_HistoryAppendOnly ==
    /\ [](\A i, j \in 1..Len(Messages) : Messages[i].id = Messages[j].id => i = j)
    /\ [][/\ IsPrefix(Messages, state'["messages"])
          /\ pc = "increment_counter" => state'["messages"] = Messages]_vars

C24_Witness ==
    /\ trace # <<>>
    /\ Last(trace) = "increment_counter"
    /\ Len(Messages) >= 4

(* C27: no node changes user_id or session_id of the advanced state; at    *)
(* END they have the values the run was invoked with.                      *)
C27_SessionKeysUnchanged ==
    /\ [](variant = "advanced" =>
            /\ state["user_id"] = init_state["user_id"]
            /\ state["session_id"] = init_state["session_id"])
    /\ [][variant = "advanced" =>
            /\ state'["user_id"] = state["user_id"]
            /\ state'["session_id"] = state["session_id"]]_vars

C27_Witness ==
    /\ variant = "advanced"
    /\ pc = END
    /\ DispatchRounds >= 2
    /\ state["session_id"] = "test_session"

C29_BudgetSpansTurns ==
    /\ [][turn' = turn + 1 =>
            /\ pc = END
            /\ Count(state') = Count(state)
            /\ Count(init_state') = Count(state)
            /\ Len(state'["messages"]) = Len(Messages) + 1
            /\ IsPrefix(Messages, state'["messages"])
            /\ Last(state'["messages"]).type = "human"]_vars
    /\ [](Count(state) >= Count(init_state))
    /\ [](Count(init_state) >= MAX_TOOL_CALLS_PER_CONVERSATION =>
            /\ invocations = 0
            /\ DispatchRounds = 0
            /\ Increments = 0
            /\ Len(trace) <= 1
            /\ trace # <<>> => pc = END)

C29_Witness ==
    /\ turn = MaxTurns
    /\ pc = END
    /\ Len(trace) = 1
    /\ Count(state) = MAX_TOOL_CALLS_PER_CONVERSATION
    /\ Last(Messages).tool_calls # <<>>
    /\ \E i \in 1..Len(Messages) : Messages[i].type = "tool"

(* C30: in the variants without a counter the policy answers "tools"       *)
(* exactly when the last message has tool calls, so a run is at END only   *)
(* after a response without tool calls; while every response requests      *)
(* tools the run does not reach END, and it stops only when the runtime's  *)
(* ceiling on node executions aborts it.                                   *)
C30_CounterlessNeverStops ==
    /\ (trace # <<>> /\ Last(trace) = "chat" /\ pc # "GraphRecursionError") =>
            /\ pc \in {"tools", END}
            /\ pc = "tools" <=> Last(Messages).tool_calls # <<>>
    /\ pc = END => Last(Messages).tool_calls = <<>>
    /\ EveryResponseRequestsTools => pc # END
    /\ (Terminated /\ EveryResponseRequestsTools) =>
            (pc = "GraphRecursionError" /\ step = ExternalCeiling)

C30_Witness ==
    /\ module = "main"
    /\ pc = "GraphRecursionError"
    /\ EveryResponseRequestsTools
    /\ DispatchRounds >= 4

C26_SameStateMachine ==
    /\ \A st \in PolicyStates : should_continue(st) = should_continue_advanced(st)
    /\ convs[1].state["messages"] # <<>> =>
            should_continue(convs[1].state) = should_continue_advanced(convs[2].state)
    /\ NodeKind(convs[1].pc) = NodeKind(convs[2].pc)
    /\ convs[1].step = convs[2].step
    /\ convs[1].state["messages"] = convs[2].state["messages"]
    /\ Count(convs[1].state) = Count(convs[2].state)

C26_Witness ==
    /\ convs[1].pc = END
    /\ convs[2].pc = END
    /\ convs[1].step = 7
    /\ Count(convs[2].state) = MAX_TOOL_CALLS_PER_CONVERSATION
    /\ Last(convs[1].state["messages"]).tool_calls # <<>>
(* C31: in the advanced graphs conversation_count (absent: 0) goes up by   *)
(* exactly one in a chat execution whose model call succeeds, stays as it  *)
(* is in a failed chat execution, in increment_counter and in tools, and   *)
(* at END it is its initial value plus the number of successful model      *)
(* calls of the run; the advanced chat node of main.py writes the same     *)
(* value and its tools node writes none.                                   *)
C31_ConversationCountTracksCalls ==
    /\ [][variant = "advanced" =>
            /\ ChatResponds => ConversationCount(state') = ConversationCount(state) + 1
            /\ ChatRaises => ConversationCount(state') = ConversationCount(state)
            /\ (IncrementCounter \/ Tools) =>
                    ConversationCount(state') = ConversationCount(state)]_vars
    /\ []((variant = "advanced" /\ pc = END) =>
            ConversationCount(state) = ConversationCount(init_state) + SuccessfulModelCalls)
    /\ []((variant = "advanced" /\ IsChat(pc)) =>
            /\ \A r \in ModelResponses :
                    main_advanced_chat_node(state, r, FALSE)["conversation_count"]
                        = ConversationCount(state) + 1
            /\ main_advanced_chat_node(state, [content |-> "", tool_calls |-> <<>>], TRUE)
                    ["conversation_count"] = ConversationCount(state))
    /\ []((variant = "advanced" /\ pc = "tools") =>
            "conversation_count" \notin DOMAIN main_ToolNode(state, node_tools, tool_fails))

C31_Witness ==
    /\ variant = "advanced"
    /\ pc = END
    /\ SuccessfulModelCalls = 2
    /\ FailedModelCalls = 1
    /\ DispatchRounds = 2
    /\ ConversationCount(state) = ConversationCount(init_state) + 2

(* C32: advanced_chat_node puts the synthesized greeting in front of the   *)
(* model input exactly when conversation_count (absent: 0) is 0 at entry,  *)
(* and in a run started with conversation_count = 0 whose first model call *)
(* succeeds the first chat execution is the only one that gets it.         *)
C32_GreetingOnFirstTurnOnly ==
    /\ [][(variant = "advanced" /\ welcomed' # welcomed) =>
            Last(welcomed') = (ConversationCount(state) = 0)]_vars
    /\ []((variant = "advanced" /\ IsChat(pc)) =>
            advanced_model_input(state) =
                IF ConversationCount(state) = 0
                THEN <<system_context>> \o Messages
                ELSE Messages)
    /\ []((/\ variant = "advanced"
           /\ ConversationCount(init_state) = 0
           /\ welcomed # <<>>
           /\ AddedMessages[1].content # "error") =>
                /\ welcomed[1]
                /\ \A i \in 2..Len(welcomed) : ~welcomed[i])

C32_Witness ==
    /\ variant = "advanced"
    /\ ConversationCount(init_state) = 0
    /\ Len(welcomed) = 3
    /\ welcomed[1]
    /\ ~welcomed[3]
    /\ AddedMessages[1].content # "error"
    /\ pc = END

(* C33: every chat execution, simple or advanced, with the model call      *)
(* succeeding or failing, leaves the stored history as it was and appends  *)
(* exactly one assistant message to it, the response or the error message; *)
(* the synthesized context or greeting stands in front of the model input  *)
(* only and is not stored.                                                 *)
C33_OneAssistantMessagePerChat ==
    [][(IsChat(pc) /\ step' = step + 1) =>
        /\ Len(state'["messages"]) = Len(Messages) + 1
        /\ IsPrefix(Messages, state'["messages"])
        /\ Last(state'["messages"]).type = "ai"
        /\ \/ \E r \in ModelResponses :
                    Last(state'["messages"]) =
                        [ResponseMessage(r, Len(Messages) + 1) EXCEPT !.id = Len(Messages) + 1]
           \/ Last(state'["messages"]) =
                    [AIMessage("error", <<>>) EXCEPT !.id = Len(Messages) + 1]
        /\ ContextPrepended(variant, state) =>
                /\ Head(ModelInput(variant, state)).content = "assistant with"
                /\ Tail(ModelInput(variant, state)) = Messages
                /\ Len(state'["messages"]) = Len(ModelInput(variant, state))
        /\ ~ContextPrepended(variant, state) => ModelInput(variant, state) = Messages]_vars

C33_Witness ==
    /\ variant = "simple"
    /\ pc = END
    /\ Len(welcomed) = 2
    /\ welcomed[1]
    /\ Len(Messages) = Len(init_state["messages"]) + 3
    /\ Last(Messages).content = "error"
    /\ \A i \in 1..Len(Messages) : Messages[i].content # "assistant with"

(* C34: the continuation policy is evaluated only as part of a chat step,  *)
(* on the state that step has written: a non-empty history whose last      *)
(* message is the assistant message the step appended, also when the run   *)
(* was invoked with an empty message list; every other step follows a      *)
(* fixed edge without consulting the policy.                               *)
C34_PolicyReadsChatOutput ==
    /\ [][(IsChat(pc) /\ step' = step + 1) =>
            /\ state'["messages"] # <<>>
            /\ Len(state'["messages"]) = Len(Messages) + 1
            /\ Last(state'["messages"]).type = "ai"
            /\ Last(state'["messages"]).id = Len(Messages) + 1
            /\ pc' = ConditionalEdge(Policy(variant, state'))
            /\ decided_at' = Count(state')]_vars
    /\ [][~IsChat(pc) =>
            /\ decided_at' = decided_at
            /\ pc' \in {pc, Edge(pc, variant), "GraphRecursionError"}]_vars

C34_Witness ==
    /\ init_state["messages"] = <<>>
    /\ trace = <<"chat">>
    /\ pc = "increment_counter"
    /\ Len(Messages) = 1
    /\ Last(Messages).tool_calls # <<>>

(* C35: invoking the help tool through the tool interface, which hands the *)
(* wrapped function exactly one text argument, returns the listing of all  *)
(* registered tool names, "help" among them, and does not fail.            *)
C35_HelpListsTools ==
    call.tool = "help" =>
        /\ ~call.outcome.raised
        /\ call.outcome.value = all_tools
        /\ \E i \in 1..Len(call.outcome.value) : call.outcome.value[i] = "help"

(* C36: PlatformSalesforceMCPWrapper.initialize() ends with the MCP-loaded *)
(* tools when the MCP attempt yields at least one tool and otherwise (the  *)
(* attempt fails, yields nothing, or there is no Node.js) with exactly the *)
(* two fallback tools salesforce_query and salesforce_describe; either way *)
(* it returns True and is_ready() holds afterwards, and                    *)
(* create_platform_ready_salesforce_tools returns that non-empty list.     *)
C36_PlatformInitializeAlwaysReady ==
    /\ \A i \in 1..Len(wrapper.log) :
            LET e == wrapper.log[i]
            IN  /\ e.returned
                /\ e.tools # <<>>
                /\ e.tools = ExpectedPlatformTools(wrapper.obj.platform_mode, e.attempt)
                /\ e.tools \in {create_platform_ready_salesforce_tools("mcp").value,
                                create_platform_ready_salesforce_tools("fallback").value}
    /\ (\E i \in 1..Len(wrapper.log) : wrapper.log[i].op = "initialize") =>
            /\ is_ready(wrapper.obj)
            /\ wrapper.obj.is_initialized
    /\ (wrapper.log # <<>> /\ Last(wrapper.log).op = "initialize") =>
            wrapper.obj.tools = Last(wrapper.log).tools

C36_Witness ==
    /\ wrapper.obj.platform_mode = "local"
    /\ Len(wrapper.log) = 3
    /\ wrapper.log[1].op = "initialize"
    /\ wrapper.log[1].attempt = "tools"
    /\ wrapper.log[1].tools = McpTools
    /\ wrapper.log[2].op = "create"
    /\ wrapper.log[2].attempt = "empty"
    /\ wrapper.log[3].op = "initialize"
    /\ wrapper.log[3].attempt = "raises"
    /\ wrapper.obj.tools = <<"salesforce_query", "salesforce_describe">>
    /\ is_ready(wrapper.obj)

(* C37: for a SalesforceMCPWrapper, after any sequence of initialize() and *)
(* cleanup() calls is_initialized is True only if the most recent          *)
(* initialize() returned True and no cleanup() followed it; right after    *)
(* cleanup() tools is empty and is_initialized is False.                   *)
C37_InitializedOnlyAfterSuccess ==
    /\ wrapper.obj.is_initialized =>
            /\ InitializeCalls # {}
            /\ wrapper.log[LatestInitialize].returned
            /\ \A j \in (LatestInitialize + 1)..Len(wrapper.log) :
                    wrapper.log[j].op # "cleanup"
    /\ (wrapper.log # <<>> /\ Last(wrapper.log).op = "cleanup") =>
            /\ wrapper.obj.tools = <<>>
            /\ ~wrapper.obj.is_initialized
====
